---- MODULE Spec2Model ----
(***************************************************************************)
(* State-machine model of tekken_like.py: the Fighter per-frame update,    *)
(* hit resolution, and the Game round / match controller.                  *)
(*                                                                         *)
(* Units.  Rect coordinates are integers, as in pygame.Rect.  The          *)
(* horizontal velocity is kept in millionths of a pixel (6.0 -> 6000000),  *)
(* the vertical velocity in twentieths of a pixel (0.85 -> 17, -16.5 ->    *)
(* -330, 18 -> 360), the round clock in milliseconds (60 s -> 60000).      *)
(* With these units every comparison and every int() truncation of the     *)
(* source gives the same result as its double arithmetic, for fewer than   *)
(* 190 consecutive friction steps of a fighter that keeps blocking.        *)
(* hp is a float in the source that only ever holds whole numbers.         *)
(***************************************************************************)
EXTENDS Integers, Sequences, FiniteSets, TLC

\* Program state: the Game object's fields.
VARIABLES p1, p2, round_time, freeze_timer, match_end, paused
\* Observation of the run: what the last loop iteration did (ev), counters
\* kept over iterations (hist) and the repertoire of the match played (env).
VARIABLES ev, hist, env

sim == <<p1, p2, round_time, freeze_timer, match_end>>
vars == <<p1, p2, round_time, freeze_timer, match_end, paused, ev, hist, env>>

---------------------------------------------------------------------------
(* Config                                                                  *)

WIDTH == 1000
HEIGHT == 560
GROUND_Y == HEIGHT - 90

(* Resolution of the two velocity components (units per pixel).             *)
VX_UNIT == 1000 * 1000
VY_UNIT == 4 * 5

GRAVITY == 17        \* 0.85 px
FRICTION_NUM == 85
FRICTION_DEN == 100
VX_EPS == 150000  \* 0.15 px
MOVE_SPEED == 6 * VX_UNIT
JUMP_SPEED == -330   \* -16.5 px
MAX_FALL == 18 * VY_UNIT

PUSHBACK == 7
BLOCK_PUSHBACK == 4
HITSTOP == 4

PUNCH_RANGE == <<45, 16>>
KICK_RANGE == <<60, 18>>
PUNCH_DMG == 8
KICK_DMG == 12
BLOCK_CHIP_PCT == 20

ROUND_TIME == 60 * 1000
BEST_OF == 3

FIGHTER_W == 56
FIGHTER_H == 98
MAX_HP == 100
P1_START_X == 200
P2_START_X == WIDTH - 260
INTRO_FREEZE == 60
MATCH_END_FREEZE == 120
ATTACK_COOLDOWN == 8
PUNCH_TOTAL == 14
KICK_TOTAL == 18
PUNCH_STARTUP == 4
PUNCH_ACTIVE == 5
KICK_STARTUP == 6
KICK_ACTIVE == 6

bounds == [x |-> 40, y |-> 0, w |-> WIDTH - 80, h |-> HEIGHT]

---------------------------------------------------------------------------
(* Helpers                                                                 *)

Max(a, b) == IF a >= b THEN a ELSE b
Min(a, b) == IF a <= b THEN a ELSE b

(* clamp without its lower limit.                                          *)
clamp_no_floor(v, lo, hi) == Min(hi, v)

clamp(v, lo, hi) == Max(lo, Min(hi, v))

sign(x) == IF x < 0 THEN -1 ELSE (IF x > 0 THEN 1 ELSE 0)

(* pygame.Rect as a record [x, y, w, h] and the derived attributes used.   *)
Rect(x, y, w, h) == [x |-> x, y |-> y, w |-> w, h |-> h]
Left(r) == r.x
Right(r) == r.x + r.w
Top(r) == r.y
Bottom(r) == r.y + r.h
CenterX(r) == r.x + (r.w \div 2)
CenterY(r) == r.y + (r.h \div 2)

colliderect(a, b) ==
    /\ Left(a) < Right(b)
    /\ Left(b) < Right(a)
    /\ Top(a) < Bottom(b)
    /\ Top(b) < Bottom(a)

(* Rect.clip, used only on rects that collide.                             *)
clip(a, b) ==
    Rect(Max(Left(a), Left(b)), Max(Top(a), Top(b)),
         Min(Right(a), Right(b)) - Max(Left(a), Left(b)),
         Min(Bottom(a), Bottom(b)) - Max(Top(a), Top(b)))

(* int(rect.x + velocity.x): truncation toward zero of a positive sum.     *)
MoveX(x, vx) ==
    IF vx >= 0 THEN x + (vx \div VX_UNIT)
    ELSE x - (((-vx) + (VX_UNIT - 1)) \div VX_UNIT)

(* int(rect.y + velocity.y): the sum stays positive, so int() is floor.    *)
MoveY(y, vy) == y + (vy \div VY_UNIT)

(* velocity.x *= FRICTION; a double never reaches 0 by this product within *)
(* the horizon stated above, so the magnitude is kept at least one unit.   *)
Decay(vx) ==
    IF vx = 0 THEN 0
    ELSE sign(vx) * Max(1, ((sign(vx) * vx) * FRICTION_NUM) \div FRICTION_DEN)

Abs(v) == IF v < 0 THEN -v ELSE v

---------------------------------------------------------------------------
(* Fighter                                                                 *)

Fighter(x, facing) ==
    [ x |-> x, y |-> GROUND_Y - FIGHTER_H,
      vx |-> 0, vy |-> 0,
      on_ground |-> TRUE, crouching |-> FALSE, blocking |-> FALSE,
      facing |-> facing,
      hp |-> MAX_HP, rounds_won |-> 0,
      attack_cooldown |-> 0, attack_type |-> "none", attack_timer |-> 0,
      hitstop |-> 0, hit_this_attack |-> FALSE ]

rect(f) == Rect(f.x, f.y, FIGHTER_W, FIGHTER_H)

hurtbox(f) ==
    IF f.crouching /\ f.on_ground
    THEN Rect(f.x, Bottom(rect(f)) - (FIGHTER_H \div 2), FIGHTER_W, FIGHTER_H \div 2)
    ELSE rect(f)

AttackRange(kind) == IF kind = "punch" THEN PUNCH_RANGE ELSE KICK_RANGE
Startup(kind) == IF kind = "punch" THEN PUNCH_STARTUP ELSE KICK_STARTUP
Active(kind) == IF kind = "punch" THEN PUNCH_ACTIVE ELSE KICK_ACTIVE

(* The rectangle attack_box builds in front of the fighter.                *)
hit_rect(f) ==
    LET aw == AttackRange(f.attack_type)[1]
        ah == AttackRange(f.attack_type)[2]
        bx == CenterX(hurtbox(f)) + f.facing * ((FIGHTER_W \div 2) - 4)
        by == CenterY(hurtbox(f)) - (ah \div 2)
    IN  IF f.facing > 0 THEN Rect(bx, by, aw, ah) ELSE Rect(bx - aw, by, aw, ah)

(* attack_box() with the active window one frame too long.                 *)
has_attack_box_late(f) ==
    /\ f.attack_type # "none"
    /\ ~ ( f.attack_timer < Startup(f.attack_type)
           \/ f.attack_timer > Startup(f.attack_type) + Active(f.attack_type) )

(* attack_box() is not None.                                               *)
has_attack_box(f) ==
    /\ f.attack_type # "none"
    /\ ~ ( f.attack_timer < Startup(f.attack_type)
           \/ f.attack_timer >= Startup(f.attack_type) + Active(f.attack_type) )

start_attack(f, kind) ==
    IF f.attack_cooldown > 0 \/ f.hitstop > 0 THEN f
    ELSE [f EXCEPT !.attack_type = kind, !.attack_timer = 0,
                   !.attack_cooldown = 0, !.hit_this_attack = FALSE]

apply_gravity(f) ==
    IF ~f.on_ground
    THEN [f EXCEPT !.vy = clamp(f.vy + GRAVITY, -999 * VY_UNIT, MAX_FALL)]
    ELSE f

(* The key state one fighter reads in update(): KEYS[name] looked up in    *)
(* pygame.key.get_pressed(), p2's alternate bindings already or-ed in.     *)
Keys(l, r, u, d, p, k, b) ==
    [left |-> l, right |-> r, up |-> u, down |-> d, punch |-> p, kick |-> k, block |-> b]

(* update(): "Face opponent".                                             *)
face(f, opp) ==
    IF CenterX(rect(opp)) # CenterX(rect(f))
    THEN [f EXCEPT !.facing = IF CenterX(rect(opp)) > CenterX(rect(f)) THEN 1 ELSE -1]
    ELSE f

(* update(): the blocking and crouching flags.                             *)
set_flags(f, keys) ==
    [f EXCEPT !.blocking = keys.block /\ f.on_ground,
              !.crouching = keys.down /\ f.on_ground /\ ~(keys.block /\ f.on_ground)]

(* update(): horizontal velocity from the keys, or friction.               *)
walk(f, keys) ==
    IF ~f.blocking
    THEN IF keys.left /\ ~keys.right THEN [f EXCEPT !.vx = -MOVE_SPEED]
         ELSE IF keys.right /\ ~keys.left THEN [f EXCEPT !.vx = MOVE_SPEED]
         ELSE [f EXCEPT !.vx = IF Abs(Decay(f.vx)) < VX_EPS THEN 0 ELSE Decay(f.vx)]
    ELSE [f EXCEPT !.vx = Decay(f.vx)]

(* update(): "jump".                                                       *)
jump(f, keys) ==
    IF keys.up /\ f.on_ground /\ ~f.blocking
    THEN [f EXCEPT !.vy = JUMP_SPEED, !.on_ground = FALSE, !.crouching = FALSE]
    ELSE f

(* update(): "attacks", punch before kick.                                 *)
attacks(f, keys) ==
    IF keys.punch THEN start_attack(f, "punch")
    ELSE IF keys.kick THEN start_attack(f, "kick")
    ELSE f

(* update(): "Advance attack timer".                                       *)
advance_attack(f) ==
    IF f.attack_type # "none"
    THEN IF f.attack_timer + 1 >= (IF f.attack_type = "punch" THEN PUNCH_TOTAL ELSE KICK_TOTAL)
         THEN [f EXCEPT !.attack_type = "none", !.attack_timer = 0,
                        !.attack_cooldown = ATTACK_COOLDOWN]
         ELSE [f EXCEPT !.attack_timer = f.attack_timer + 1]
    ELSE f

(* update(): the cooldown countdown.                                       *)
cool_down(f) ==
    IF f.attack_cooldown > 0
    THEN [f EXCEPT !.attack_cooldown = f.attack_cooldown - 1]
    ELSE f

(* update(): rect.x after the move, kept within bounds.                    *)
clamp_x(x) ==
    IF (IF x < Left(bounds) THEN Left(bounds) ELSE x) + FIGHTER_W > Right(bounds)
    THEN Right(bounds) - FIGHTER_W
    ELSE (IF x < Left(bounds) THEN Left(bounds) ELSE x)

(* update(): "Move & collide with ground".                                 *)
move(f) ==
    IF MoveY(f.y, f.vy) + FIGHTER_H >= GROUND_Y
    THEN [f EXCEPT !.x = clamp_x(MoveX(f.x, f.vx)), !.y = GROUND_Y - FIGHTER_H,
                   !.vy = 0, !.on_ground = TRUE]
    ELSE [f EXCEPT !.x = clamp_x(MoveX(f.x, f.vx)), !.y = MoveY(f.y, f.vy)]

(* update() after the hitstop test, up to the overlap test.                *)
update_body(f, keys, opp) ==
    move(apply_gravity(cool_down(advance_attack(
        attacks(jump(walk(set_flags(face(f, opp), keys), keys), keys), keys)))))

(* "Prevent overlapping fighters": the push apart at the end of update().  *)
push_shift(f, opp) == (clip(rect(f), rect(opp)).w \div 2) + 1

push_apart(f, opp) ==
    IF colliderect(rect(f), rect(opp))
       /\ clip(rect(f), rect(opp)).w < clip(rect(f), rect(opp)).h
    THEN IF CenterX(rect(f)) < CenterX(rect(opp))
         THEN [self |-> [f EXCEPT !.x = f.x - push_shift(f, opp)],
               opp |-> [opp EXCEPT !.x = opp.x + push_shift(f, opp)]]
         ELSE [self |-> [f EXCEPT !.x = f.x + push_shift(f, opp)],
               opp |-> [opp EXCEPT !.x = opp.x - push_shift(f, opp)]]
    ELSE [self |-> f, opp |-> opp]

(* update() leaving hitstop one frame early.                               *)
update_short_hitstop(f, keys, opp) ==
    IF f.hitstop > 1
    THEN [self |-> [f EXCEPT !.hitstop = f.hitstop - 1], opp |-> opp, ran |-> FALSE]
    ELSE [ran |-> TRUE] @@ push_apart(update_body(f, keys, opp), opp)

(* Fighter.update(keys, opp, bounds): the fighter and its opponent after   *)
(* the call (the opponent's rect can be shifted by the push apart).        *)
(* ran tells whether the call went past the hitstop test.                  *)
update(f, keys, opp) ==
    IF f.hitstop > 0
    THEN [self |-> [f EXCEPT !.hitstop = f.hitstop - 1], opp |-> opp, ran |-> FALSE]
    ELSE [ran |-> TRUE] @@ push_apart(update_body(f, keys, opp), opp)

(* Does update(f, keys, ...) reach start_attack and pass its guard?         *)
starts_attack(f, keys) ==
    /\ f.hitstop = 0
    /\ keys.punch \/ keys.kick
    /\ ~(f.attack_cooldown > 0 \/ f.hitstop > 0)

(* The chip rounded up instead of truncated.                               *)
chip_damage_ceil(dmg) == Max(1, ((dmg * BLOCK_CHIP_PCT) + 99) \div 100)

chip_damage(dmg) == Max(1, (dmg * BLOCK_CHIP_PCT) \div 100)

receive_hit(f, dmg, direction, blocked) ==
    [f EXCEPT !.hp = clamp(IF f.blocking /\ blocked THEN f.hp - chip_damage(dmg)
                           ELSE f.hp - dmg, 0, MAX_HP),
              !.x = IF f.on_ground
                    THEN f.x + (IF f.blocking /\ blocked THEN BLOCK_PUSHBACK * direction
                                ELSE PUSHBACK * direction)
                    ELSE f.x,
              !.hitstop = HITSTOP]

---------------------------------------------------------------------------
(* Game                                                                    *)

(* The fields of Game that update() and its callees read and write; over   *)
(* logs the winner_name of each round_over call made on the record.        *)
GameOf(a, b, rt, ft, me) ==
    [p1 |-> a, p2 |-> b, round_time |-> rt, freeze_timer |-> ft, match_end |-> me,
     over |-> <<>>]

reset_match(me) ==
    GameOf(Fighter(P1_START_X, 1), Fighter(P2_START_X, -1), ROUND_TIME, INTRO_FREEZE, me)

(* The match end test asking for more than the majority.                   *)
match_decided_late(a, b) ==
    a.rounds_won > (BEST_OF \div 2) + 1 \/ b.rounds_won > (BEST_OF \div 2) + 1

(* round_over: "Check match end".                                          *)
match_decided(a, b) ==
    a.rounds_won >= (BEST_OF \div 2) + 1 \/ b.rounds_won >= (BEST_OF \div 2) + 1

round_over(g, winner_name) ==
    LET a == IF winner_name = "p1"
             THEN [g.p1 EXCEPT !.rounds_won = g.p1.rounds_won + 1] ELSE g.p1
        b == IF winner_name = "p2"
             THEN [g.p2 EXCEPT !.rounds_won = g.p2.rounds_won + 1] ELSE g.p2
    IN  IF match_decided(a, b)
        THEN [g EXCEPT !.p1 = a, !.p2 = b,
                       !.freeze_timer = MATCH_END_FREEZE, !.round_time = 0,
                       !.match_end = TRUE,
                       !.over = Append(g.over, winner_name)]
        ELSE [g EXCEPT
                !.p1 = [a EXCEPT !.hp = MAX_HP, !.x = 200, !.y = GROUND_Y - FIGHTER_H,
                                 !.vx = 0, !.vy = 0, !.attack_type = "none"],
                !.p2 = [b EXCEPT !.hp = MAX_HP, !.x = (WIDTH - 200) - FIGHTER_W,
                                 !.y = GROUND_Y - FIGHTER_H,
                                 !.vx = 0, !.vy = 0, !.attack_type = "none"],
                !.freeze_timer = INTRO_FREEZE, !.round_time = ROUND_TIME,
                !.match_end = FALSE,
                !.over = Append(g.over, winner_name)]

(* The pair test without the hit_this_attack flag.                         *)
lands_again(atk, dfd) ==
    /\ has_attack_box(atk)
    /\ colliderect(hit_rect(atk), hurtbox(dfd))

(* One (atk, dfd) pair of handle_hits: does the attack register?           *)
lands(atk, dfd) ==
    /\ has_attack_box(atk)
    /\ ~atk.hit_this_attack
    /\ colliderect(hit_rect(atk), hurtbox(dfd))

(* The pair after the loop body of handle_hits.                            *)
resolve_pair(atk, dfd) ==
    IF lands(atk, dfd)
    THEN LET dmg == IF atk.attack_type = "punch" THEN PUNCH_DMG ELSE KICK_DMG
         IN  [atk |-> [atk EXCEPT !.hit_this_attack = TRUE, !.hitstop = HITSTOP],
              dfd |-> receive_hit(dfd, dmg, sign(atk.facing), dfd.blocking),
              hit |-> TRUE]
    ELSE [atk |-> atk, dfd |-> dfd, hit |-> FALSE]

(* handle_hits: (p1, p2) first, then (p2, p1) on the result.               *)
second_pair(first, second) ==
    [p1 |-> second.dfd, p2 |-> second.atk, hit |-> <<first.hit, second.hit>>]

first_pair(first) == second_pair(first, resolve_pair(first.dfd, first.atk))

handle_hits(a, b) == first_pair(resolve_pair(a, b))

(* The first branch's condition without the freeze_timer test.             *)
in_combat_during_hold(p, ft, rt) == ~p /\ rt > 0

(* The condition of Game.update's first branch.                            *)
in_combat(p, ft, rt) == ~p /\ ft <= 0 /\ rt > 0

(* Game.update without its timer branch.                                   *)
timeout_check_off(g) == g

(* The timer branch giving a tie on health to p1.                          *)
timeout_check_tie_to_p1(g) ==
    IF g.round_time <= 0
    THEN IF g.p1.hp >= g.p2.hp THEN round_over(g, "p1")
         ELSE round_over(g, "p2")
    ELSE g

(* The timer branch of Game.update, on the clock already decremented.      *)
timeout_check(g) ==
    IF g.round_time <= 0
    THEN IF g.p1.hp > g.p2.hp THEN round_over(g, "p1")
         ELSE IF g.p2.hp > g.p1.hp THEN round_over(g, "p2")
         ELSE round_over(g, "none")
    ELSE g

(* The "HP KO check" of Game.update.                                        *)
ko_check(g) ==
    IF g.p1.hp <= 0 THEN round_over(g, "p2")
    ELSE IF g.p2.hp <= 0 THEN round_over(g, "p1")
    ELSE g

(* The combat branch of Game.update(dt) up to hit resolution: p1.update,   *)
(* p2.update, handle_hits.  ran and started record, per fighter, whether   *)
(* its update went past the hitstop test and whether it started an attack; *)
(* ready, whether its attack passes the hit test as handle_hits begins.    *)
fight_p2(u2, ran1, started) ==
    handle_hits(u2.opp, u2.self)
        @@ [ran |-> <<ran1, u2.ran>>, started |-> started,
            ready |-> <<lands(u2.opp, u2.self), lands(u2.self, u2.opp)>>]

fight_p1(u1, k2, started1) ==
    fight_p2(update(u1.opp, k2, u1.self), u1.ran, <<started1, starts_attack(u1.opp, k2)>>)

fight(a, b, k1, k2) == fight_p1(update(a, k1, b), k2, starts_attack(a, k1))

(* The rest of the combat branch: the clock, the timer check, the KO check.*)
resolve(f, rt, ft, me) == ko_check(timeout_check(GameOf(f.p1, f.p2, rt, ft, me)))

---------------------------------------------------------------------------
(* Environment: the players and the clock                                   *)

NoKeys == Keys(FALSE, FALSE, FALSE, FALSE, FALSE, FALSE, FALSE)
KLeft == [NoKeys EXCEPT !.left = TRUE]
KRight == [NoKeys EXCEPT !.right = TRUE]
KUp == [NoKeys EXCEPT !.up = TRUE]
KDown == [NoKeys EXCEPT !.down = TRUE]
KPunch == [NoKeys EXCEPT !.punch = TRUE]
KKick == [NoKeys EXCEPT !.kick = TRUE]
KBlock == [NoKeys EXCEPT !.block = TRUE]
KUpRight == [NoKeys EXCEPT !.up = TRUE, !.right = TRUE]

(* Frame times clock.tick(FPS) reports, in ms: a frame and a stall.  Both  *)
(* are multiples of 1/8 s, so that round_time -= dt is exact in a double.  *)
DtFrame == 125
DtStall == 30000

---------------------------------------------------------------------------
(* Observation                                                             *)

SinceCap == 6

AttackOf(f) == <<f.attack_type, f.attack_timer>>

(* The observation of an iteration that ran no combat, on the game g it    *)
(* leaves.                                                                 *)
Quiet(step, g, calls) ==
    [step |-> step, ran |-> <<FALSE, FALSE>>, started |-> <<FALSE, FALSE>>,
     hit |-> <<FALSE, FALSE>>, hp0 |-> <<g.p1.hp, g.p2.hp>>,
     hp |-> <<g.p1.hp, g.p2.hp>>, atk |-> <<AttackOf(g.p1), AttackOf(g.p2)>>,
     rt |-> g.round_time, over |-> <<>>, calls |-> calls,
     ready |-> <<FALSE, FALSE>>]

Now == GameOf(p1, p2, round_time, freeze_timer, match_end)

NoHistory == [since |-> <<SinceCap, SinceCap>>, landed |-> <<0, 0>>]

---------------------------------------------------------------------------
(* Matches explored                                                        *)
(*                                                                         *)
(* A behaviour is one run of Game.run().  It starts either from the state  *)
(* Game.__init__ leaves, or within a round that is under way: the fighters *)
(* stand idle somewhere in the arena, facing each other, with the health,  *)
(* the score and the round clock the match has come to.  Each player draws *)
(* the keys held in a frame from a repertoire that is fixed for the run.   *)
(* The last `frames` regular frames of a round are explored frame by frame;*)
(* before that window the clock advances by stalls, with no key held.      *)

Standing(x1, x2, hp1, hp2, won1, won2, rt) ==
    GameOf([Fighter(x1, 1) EXCEPT !.hp = hp1, !.rounds_won = won1],
           [Fighter(x2, -1) EXCEPT !.hp = hp2, !.rounds_won = won2],
           rt, 0, FALSE)

MatchFrames == 0
DuelFrames == 10
ClashFrames == 8
WallFrames == 8
JumpFrames == 40
FinishFrames == 6

ScenarioIds == {"match", "duel", "clash", "wall", "jump", "finish"}

(* The number of regular frames explored at the end of a round.            *)
Frames(id) ==
    CASE id = "match" -> MatchFrames
      [] id = "duel" -> DuelFrames
      [] id = "clash" -> ClashFrames
      [] id = "wall" -> WallFrames
      [] id = "jump" -> JumpFrames
      [] id = "finish" -> FinishFrames

Window(id) == Frames(id) * DtFrame

(* The keys player 1 and player 2 may hold in a regular frame.             *)
Keys1(id) ==
    CASE id = "match" -> {NoKeys}
      [] id = "duel" -> {NoKeys, KPunch, KKick}
      [] id = "clash" -> {NoKeys, KKick}
      [] id = "wall" -> {NoKeys, KRight, KKick}
      [] id = "jump" -> {KUpRight}
      [] id = "finish" -> {NoKeys, KKick}

Keys2(id) ==
    CASE id = "match" -> {NoKeys}
      [] id = "duel" -> {NoKeys, KBlock, KDown}
      [] id = "clash" -> {NoKeys, KPunch, KKick}
      [] id = "wall" -> {NoKeys, KBlock}
      [] id = "jump" -> {NoKeys, KKick}
      [] id = "finish" -> {NoKeys}

(* Whether Escape and R are pressed during the run.                        *)
Controls(id) == id \in {"match", "wall", "finish"}

(* Where the run starts.                                                   *)
Start(id) ==
    CASE id = "match" -> {reset_match(FALSE)}
      [] id = "duel" -> {Standing(400, 480, 100, 100, 0, 0, Window(id)),
                         Standing(400, 480, 12, 8, 1, 1, Window(id))}
      [] id = "clash" -> {Standing(400, 480, 12, 8, 0, 1, Window(id)),
                          Standing(400, 506, 12, 12, 1, 0, Window(id))}
      [] id = "wall" -> {Standing(840, 904, 100, 100, 0, 0, Window(id) - 60)}
      [] id = "jump" -> {Standing(400, 492, 100, 100, 0, 0, Window(id))}
      [] id = "finish" -> {Standing(400, 480, 12, 8, 1, 1, Window(id))}

---------------------------------------------------------------------------
(* Actions                                                                 *)

Init ==
    \E id \in ScenarioIds : \E g \in Start(id) :
        /\ env = id
        /\ p1 = g.p1 /\ p2 = g.p2
        /\ round_time = g.round_time
        /\ freeze_timer = g.freeze_timer
        /\ match_end = g.match_end
        /\ paused = FALSE
        /\ ev = Quiet("init", g, <<SinceCap, SinceCap>>)
        /\ hist = NoHistory

Calls(i) == Min(SinceCap, hist.since[i] + 1)

(* What a frame of combat leaves: f is the fight, n the game after it.     *)
Commit(f, n, rt) ==
    /\ p1' = n.p1 /\ p2' = n.p2
    /\ round_time' = n.round_time
    /\ freeze_timer' = n.freeze_timer
    /\ match_end' = n.match_end
    /\ ev' = [step |-> "combat", ran |-> f.ran, started |-> f.started,
              hit |-> f.hit, hp0 |-> <<p1.hp, p2.hp>>, hp |-> <<f.p1.hp, f.p2.hp>>,
              atk |-> <<AttackOf(f.p1), AttackOf(f.p2)>>,
              rt |-> rt, over |-> n.over, calls |-> <<Calls(1), Calls(2)>>,
              ready |-> f.ready]
    /\ hist' = [since |-> [i \in {1, 2} |->
                             IF f.hit[1] \/ f.hit[2] THEN 0 ELSE Calls(i)],
                landed |-> [i \in {1, 2} |->
                             (IF f.started[i] THEN 0 ELSE hist.landed[i])
                             + (IF f.hit[i] THEN 1 ELSE 0)]]

Fought(f, dt) ==
    Commit(f, resolve(f, round_time - dt, freeze_timer, match_end), round_time - dt)

(* Game.update(dt), first branch: a frame of combat.                       *)
Combat(k1, k2, dt) ==
    /\ in_combat(paused, freeze_timer, round_time)
    /\ Fought(fight(p1, p2, k1, k2), dt)
    /\ UNCHANGED <<paused, env>>

(* A regular frame inside the explored window, keys from the repertoires.  *)
RegularFrame ==
    /\ in_combat(paused, freeze_timer, round_time)
    /\ round_time <= Window(env)
    /\ \E k1 \in Keys1(env), k2 \in Keys2(env) : Combat(k1, k2, DtFrame)

(* A stalled frame before the window.                                      *)
StallFrame ==
    /\ in_combat(paused, freeze_timer, round_time)
    /\ round_time > Window(env)
    /\ Combat(NoKeys, NoKeys, DtStall)

(* Game.update(dt), else branch with freeze_timer > 0.                     *)
FreezeFrame ==
    /\ ~paused
    /\ ~in_combat(paused, freeze_timer, round_time)
    /\ freeze_timer > 0
    /\ freeze_timer' = freeze_timer - 1
    /\ ev' = Quiet("freeze", Now, hist.since)
    /\ UNCHANGED <<p1, p2, round_time, match_end, paused, hist, env>>

(* Game.update(dt), else branch with nothing left to count down.           *)
IdleFrame ==
    /\ ~paused
    /\ ~in_combat(paused, freeze_timer, round_time)
    /\ ~(freeze_timer > 0)
    /\ ev' = Quiet("idle", Now, hist.since)
    /\ UNCHANGED <<p1, p2, round_time, freeze_timer, match_end, paused, hist, env>>

(* A loop iteration of run() while paused: update() is not called.         *)
PausedFrame ==
    /\ paused
    /\ ev' = Quiet("paused", Now, hist.since)
    /\ UNCHANGED <<p1, p2, round_time, freeze_timer, match_end, paused, hist, env>>

(* KEYDOWN K_ESCAPE.                                                       *)
TogglePause ==
    /\ Controls(env)
    /\ paused' = ~paused
    /\ ev' = Quiet("escape", Now, hist.since)
    /\ UNCHANGED <<p1, p2, round_time, freeze_timer, match_end, hist, env>>

Reset(g) ==
    /\ p1' = g.p1 /\ p2' = g.p2
    /\ round_time' = g.round_time
    /\ freeze_timer' = g.freeze_timer
    /\ match_end' = g.match_end
    /\ ev' = Quiet("restart", g, <<SinceCap, SinceCap>>)

(* KEYDOWN K_r: reset_match().                                             *)
Restart ==
    /\ Controls(env)
    /\ Reset(reset_match(match_end))
    /\ hist' = NoHistory
    /\ UNCHANGED <<paused, env>>

Next ==
    \/ RegularFrame
    \/ StallFrame
    \/ FreezeFrame
    \/ IdleFrame
    \/ PausedFrame
    \/ TogglePause
    \/ Restart

Spec == Init /\ [][Next]_vars

(* run() with nobody touching Escape or R: every iteration calls update()  *)
(* with dt > 0, and the loop never stops.                                  *)
LiveNext ==
    \/ RegularFrame
    \/ StallFrame
    \/ FreezeFrame
    \/ IdleFrame

(* What a frame of combat does to the clock: round_time -= dt, or the      *)
(* value round_over leaves.  From a state of combat every step of LiveNext *)
(* is a frame of combat and is such a step, so weak fairness of ClockRuns  *)
(* is weak fairness of RegularFrame \/ StallFrame.                         *)
ClockRuns ==
    /\ in_combat(paused, freeze_timer, round_time)
    /\ round_time' \in {round_time - DtFrame, round_time - DtStall, ROUND_TIME, 0}

LiveSpec ==
    /\ Init /\ [][LiveNext]_vars
    /\ WF_vars(FreezeFrame)
    /\ WF_round_time(ClockRuns)

---------------------------------------------------------------------------
(* Properties                                                              *)

F(i) == IF i = 1 THEN p1 ELSE p2
Opp(i) == 3 - i
Majority == (BEST_OF \div 2) + 1
IsFrame(step) == step \in {"combat", "freeze", "idle", "paused"}

(* C1: in every reachable state each fighter's health lies in              *)
(* [0, maxHealth], also right after receive_hit within a frame.            *)
C1_HealthInRange ==
    \A i \in {1, 2} :
        /\ 0 <= F(i).hp /\ F(i).hp <= MAX_HP
        /\ 0 <= ev.hp[i] /\ ev.hp[i] <= MAX_HP

(* A kick on a fighter with less health than the kick's damage.            *)
C1_Witness ==
    /\ ev.step = "combat" /\ ev.hit[1]
    /\ ev.atk[1][1] = "kick"
    /\ ev.hp0[2] = 8 /\ ev.hp[2] = 0 /\ p2.hp = 0

(* C2: a round resolution ends the match (match_end, hold of 120,          *)
(* round_time 0) iff a fighter's rounds_won has reached the majority;      *)
(* otherwise it clears match_end and re-enters the intro (hold of 60, full *)
(* round clock).  No other step turns match_end from false to true.        *)
C2_MatchEndsAtMajority ==
    [][ /\ (ev'.step = "combat" /\ ev'.over # <<>>) =>
              IF p1'.rounds_won >= Majority \/ p2'.rounds_won >= Majority
              THEN match_end' /\ freeze_timer' = 120 /\ round_time' = 0
              ELSE ~match_end' /\ freeze_timer' = 60 /\ round_time' = ROUND_TIME
        /\ (~match_end /\ match_end') =>
              /\ ev'.step = "combat" /\ ev'.over # <<>>
              /\ p1'.rounds_won >= Majority \/ p2'.rounds_won >= Majority ]_vars

C2_Witness ==
    /\ ev.step = "combat" /\ Len(ev.over) = 1
    /\ match_end /\ freeze_timer = 120 /\ round_time = 0
    /\ p1.rounds_won = 2 /\ p2.rounds_won < 2

(* C3: when a frame of combat runs the clock out with both fighters alive, *)
(* the fighter with strictly more health, and only that fighter, gains a   *)
(* round; with equal health nobody does and the round is replayed.         *)
C3_TimeoutByHealth ==
    [][ (ev'.step = "combat" /\ ev'.rt <= 0 /\ ev'.hp[1] > 0 /\ ev'.hp[2] > 0) =>
            IF ev'.hp[1] > ev'.hp[2]
            THEN p1'.rounds_won = p1.rounds_won + 1 /\ p2'.rounds_won = p2.rounds_won
            ELSE IF ev'.hp[2] > ev'.hp[1]
            THEN p2'.rounds_won = p2.rounds_won + 1 /\ p1'.rounds_won = p1.rounds_won
            ELSE /\ p1'.rounds_won = p1.rounds_won /\ p2'.rounds_won = p2.rounds_won
                 /\ p1'.hp = MAX_HP /\ p2'.hp = MAX_HP
                 /\ p1'.x = 200 /\ p2'.x + FIGHTER_W = WIDTH - 200
                 /\ p1'.y + FIGHTER_H = GROUND_Y /\ p2'.y + FIGHTER_H = GROUND_Y
                 /\ p1'.vx = 0 /\ p1'.vy = 0 /\ p2'.vx = 0 /\ p2'.vy = 0
                 /\ freeze_timer' = 60 /\ round_time' = ROUND_TIME /\ ~match_end' ]_vars

C3_Witness ==
    /\ ev.step = "combat" /\ ev.rt <= 0
    /\ ev.hp[1] > ev.hp[2] /\ ev.hp[2] > 0
    /\ ev.over = <<"p1">>

(* C4: a fighter whose health is <= 0 after hit resolution gives its       *)
(* opponent exactly one round in that frame, and combat is left in that    *)
(* frame; also when both fighters reach 0 in the same frame.               *)
C4_KnockoutAwardsOpponent ==
    [][ ev'.step = "combat" =>
          /\ ev'.hp[1] <= 0 => p2'.rounds_won = p2.rounds_won + 1
          /\ ev'.hp[2] <= 0 => p1'.rounds_won = p1.rounds_won + 1
          /\ (ev'.hp[1] <= 0 \/ ev'.hp[2] <= 0) => ~(freeze_timer' = 0 /\ round_time' > 0)
      ]_vars

(* C5: an attack registers at most one hit between its start and the       *)
(* attacker's next start of an attack.                                     *)
C5_OneHitPerAttack ==
    \A i \in {1, 2} :
        /\ hist.landed[i] <= 1
        /\ hist.landed[i] = 1 => F(i).hit_this_attack

(* The attack has landed, its box is still out over the defender a frame   *)
(* later, and nothing registers.                                           *)
C5_Witness ==
    /\ ev.step = "combat" /\ ~ev.hit[1] /\ ~ev.started[1]
    /\ hist.landed[1] = 1
    /\ has_attack_box(p1) /\ colliderect(hit_rect(p1), hurtbox(p2))

InActiveWindow(a) ==
    \/ a[1] = "punch" /\ 4 <= a[2] /\ a[2] < 9
    \/ a[1] = "kick" /\ 6 <= a[2] /\ a[2] < 12

(* C6: attack_box() is not None iff an attack is set and its timer is in   *)
(* the active window (punch 4..8, kick 6..11); a fighter loses health in a *)
(* frame only if the opponent's attack is in that window at resolution.    *)
C6_BoxOnlyInActiveWindow ==
    \A i \in {1, 2} :
        /\ has_attack_box(F(i)) <=> InActiveWindow(AttackOf(F(i)))
        /\ (ev.step = "combat" /\ ev.hp[i] < ev.hp0[i]) => InActiveWindow(ev.atk[Opp(i)])

(* A kick lands on its first active frame.                                 *)
C6_Witness ==
    /\ ev.step = "combat" /\ ev.hp[2] < ev.hp0[2]
    /\ ev.atk[1] = <<"kick", 6>>

(* What update() leaves alone when it returns at the hitstop test.         *)
Untouched(a, b) ==
    /\ a.attack_type = b.attack_type /\ a.attack_timer = b.attack_timer
    /\ a.attack_cooldown = b.attack_cooldown
    /\ a.vx = b.vx /\ a.vy = b.vy /\ a.y = b.y /\ a.on_ground = b.on_ground
    /\ a.blocking = b.blocking /\ a.crouching = b.crouching /\ a.facing = b.facing

(* C7: after a hit, a fighter's update() in each of the next 4 frames of   *)
(* combat only counts hitstop down; in the 5th it processes again.         *)
C7_HitstopFreezesFourFrames ==
    [][ ev'.step = "combat" =>
          /\ IF ev'.calls[1] <= 4
             THEN ~ev'.ran[1] /\ (ev'.over = <<>> => Untouched(p1, p1'))
             ELSE ev'.ran[1]
          /\ IF ev'.calls[2] <= 4
             THEN ~ev'.ran[2] /\ (ev'.over = <<>> => Untouched(p2, p2'))
             ELSE ev'.ran[2] ]_vars

(* The 5th frame after a punch landed on its first active frame: the timer *)
(* moves on from 4.                                                        *)
C7_Witness ==
    /\ ev.step = "combat" /\ ev.calls[1] = 5 /\ ev.ran[1]
    /\ ev.atk[1] = <<"punch", 5>> /\ hist.landed[1] = 1

(* C8: at the end of every frame of combat the fighters' rects do not      *)
(* overlap.                                                                *)
C8_NoOverlapAfterFrame ==
    ev.step = "combat" => ~colliderect(rect(p1), rect(p2))

(* C9: each fighter's rect lies within the arena's horizontal bounds and   *)
(* its feet are not below the ground.                                      *)
C9_InsideArena ==
    \A i \in {1, 2} :
        /\ Left(bounds) <= Left(rect(F(i)))
        /\ Right(rect(F(i))) <= Right(bounds)
        /\ Bottom(rect(F(i))) <= GROUND_Y

(* C10: a frame run with freeze_timer > 0 takes 1 off freeze_timer and     *)
(* changes nothing else; a frame run while paused changes nothing.         *)
C10_HoldAndPauseFreezeTheGame ==
    [][ /\ (IsFrame(ev'.step) /\ ~paused /\ freeze_timer > 0) =>
              /\ freeze_timer' = freeze_timer - 1
              /\ UNCHANGED <<p1, p2, round_time, match_end, paused>>
        /\ (IsFrame(ev'.step) /\ paused) =>
              UNCHANGED <<p1, p2, round_time, freeze_timer, match_end, paused>> ]_vars

(* A frame of the intro that follows a knockout: the hitstop the hit left  *)
(* is still there.                                                         *)
C10_Witness ==
    /\ ev.step = "freeze" /\ ~match_end /\ freeze_timer < 60
    /\ p1.hitstop > 0

(* C11: a restart (R) in any state leaves the state of a new match: both   *)
(* rounds_won 0, both at full health at the start positions with no attack *)
(* state, a full round clock, the intro hold of 60 and match_end false.    *)
C11_RestartGivesNewMatch ==
    [][ ev'.step = "restart" =>
          /\ p1' = Fighter(P1_START_X, 1) /\ p2' = Fighter(P2_START_X, -1)
          /\ round_time' = ROUND_TIME /\ freeze_timer' = 60
          /\ ~match_end' ]_vars

RoundReset == ev.step = "combat" /\ ev.over # <<>> /\ ~match_end

(* C12: after a round resolution that does not end the match both fighters *)
(* have full health, zero velocity and no attack state left: attack_type   *)
(* none, attack_timer 0, attack_cooldown 0, hit_this_attack false and      *)
(* hitstop 0.                                                              *)
C12_RoundResetClearsFighters ==
    RoundReset =>
        \A i \in {1, 2} :
            /\ F(i).hp = MAX_HP
            /\ F(i).vx = 0 /\ F(i).vy = 0
            /\ F(i).attack_type = "none" /\ F(i).attack_timer = 0
            /\ F(i).attack_cooldown = 0
            /\ ~F(i).hit_this_attack
            /\ F(i).hitstop = 0

IntroBegins == freeze_timer = INTRO_FREEZE /\ round_time = ROUND_TIME

(* C13: at the beginning of every intro, after a match start, a restart or *)
(* a round reset, each fighter has the position and the facing it has at   *)
(* match start, and stands on the ground with on_ground true.              *)
C13_RoundsStartFromFixedPlacement ==
    IntroBegins =>
        /\ p1.x = Fighter(P1_START_X, 1).x /\ p1.y = Fighter(P1_START_X, 1).y
        /\ p2.x = Fighter(P2_START_X, -1).x /\ p2.y = Fighter(P2_START_X, -1).y
        /\ p1.facing = 1 /\ p2.facing = -1
        /\ Bottom(rect(p1)) = GROUND_Y /\ Bottom(rect(p2)) = GROUND_Y
        /\ p1.on_ground /\ p2.on_ground

(* The loss the rule gives: full damage (punch 8, kick 12), or a fifth of  *)
(* it rounded down, at least 1, when the defender is blocking.             *)
RuleLoss(kind, blocked) ==
    IF blocked
    THEN Max(1, ((IF kind = "punch" THEN 8 ELSE 12) * 2) \div 10)
    ELSE (IF kind = "punch" THEN 8 ELSE 12)

(* C14: a hit lowers the defender's health by max(1, floor(damage * 0.2))  *)
(* when the defender's blocking flag is set at hit resolution and by the   *)
(* full damage otherwise, floored at 0; without a hit health is unchanged. *)
C14_BlockedHitChips ==
    ev.step = "combat" =>
        \A i \in {1, 2} :
            IF ev.hit[i]
            THEN ev.hp[Opp(i)] =
                   Max(0, ev.hp0[Opp(i)] - RuleLoss(ev.atk[i][1], F(Opp(i)).blocking))
            ELSE ev.hp[Opp(i)] = ev.hp0[Opp(i)]

(* A kick lands on a blocking defender and takes 2.                        *)
C14_Witness ==
    /\ ev.step = "combat" /\ ev.hit[1] /\ ev.atk[1][1] = "kick"
    /\ p2.blocking /\ ev.hp0[2] = 100 /\ ev.hp[2] = 98

StandingPunch(a, d) ==
    /\ a.on_ground /\ ~a.crouching /\ a.attack_type = "punch"
    /\ d.on_ground /\ d.crouching

(* C15: with both fighters on the ground, the attacker not crouching and   *)
(* the defender crouching, the attacker's punch box never overlaps the     *)
(* defender's hurtbox, and no such punch registers as a hit.               *)
C15_CrouchDodgesPunch ==
    \A i \in {1, 2} :
        StandingPunch(F(i), F(Opp(i))) =>
            /\ ~colliderect(hit_rect(F(i)), hurtbox(F(Opp(i))))
            /\ ev.step = "combat" => ~ev.hit[i]

(* C16: in one frame the sum of both fighters' rounds_won rises by at most *)
(* 1, and no fighter's rounds_won exceeds floor(BEST_OF / 2) + 1, also     *)
(* when the clock runs out in the frame of a knockout.                     *)
C16_OneRoundPerFrame ==
    [][ /\ (p1'.rounds_won + p2'.rounds_won) - (p1.rounds_won + p2.rounds_won) <= 1
        /\ p1'.rounds_won <= Majority /\ p2'.rounds_won <= Majority ]_vars

(* One fighter across a frame of combat that resolves no round: an attack  *)
(* in progress keeps its kind, its timer does not go down and its          *)
(* hit_this_attack flag is not cleared, or the timer has reached the       *)
(* kind's total (punch 14, kick 18) and the attack ends with a cooldown.   *)
AttackRunsOn(a, b) ==
    a.attack_type # "none" =>
        \/ /\ b.attack_type = a.attack_type
           /\ b.attack_timer >= a.attack_timer
           /\ a.hit_this_attack => b.hit_this_attack
        \/ /\ b.attack_type = "none"
           /\ a.attack_timer + 1 >= (IF a.attack_type = "punch" THEN 14 ELSE 18)
           /\ b.attack_cooldown > 0

(* C17: while attack_type is set the attack_timer never decreases and      *)
(* hit_this_attack is never cleared, whatever keys are held; only at the   *)
(* kind's total duration does attack_type clear and the cooldown start.    *)
C17_AttackCannotRestart ==
    [][ (ev'.step = "combat" /\ ev'.over = <<>>) =>
            AttackRunsOn(p1, p1') /\ AttackRunsOn(p2, p2') ]_vars

(* C18: at the end of every frame a fighter whose horizontal centre        *)
(* differs from the opponent's faces the opponent's centre.                *)
C18_FacesOpponent ==
    \A i \in {1, 2} :
        CenterX(rect(F(i))) # CenterX(rect(F(Opp(i)))) =>
            F(i).facing = (IF CenterX(rect(F(Opp(i)))) > CenterX(rect(F(i))) THEN 1 ELSE -1)

(* C19: if, as hit resolution begins in a frame, each fighter has an       *)
(* active attack box over the other's hurtbox and neither has              *)
(* hit_this_attack set, both fighters are hit in that frame.               *)
C19_ClashHitsBoth ==
    (ev.step = "combat" /\ ev.ready[1] /\ ev.ready[2]) => (ev.hit[1] /\ ev.hit[2])

Intro == freeze_timer > 0 /\ round_time > 0
InCombat == in_combat(paused, freeze_timer, round_time)
Resolved == ev.step = "combat" /\ ev.over # <<>>

(* C20: with unpaused frames of positive dt for ever and no restart, every *)
(* intro leads to combat, every combat leads to a round resolution, and    *)
(* once the match has ended no round is started or resolved any more.      *)
C20_NeverStalls ==
    /\ Intro ~> InCombat
    /\ InCombat ~> Resolved
    /\ [][ match_end =>
              /\ match_end' /\ ~InCombat' /\ ~Resolved'
              /\ p1'.rounds_won = p1.rounds_won /\ p2'.rounds_won = p2.rounds_won
              /\ round_time' = round_time ]_vars

(* The hold after the match end has run out and frames keep coming.        *)
C20_Witness ==
    /\ match_end /\ ev.step = "idle" /\ freeze_timer = 0
    /\ p1.rounds_won = 2

====
